---- MODULE Spec2Model ----
(***************************************************************************)
(* CLexicon: a 26-ary prefix tree of LexNodes holding a set of words.      *)
(* The model follows CLexicon.c (the version that has scrub_empty_branches *)
(* and clex_remove_prefix).  A LexNode is a heap cell; a pointer is either *)
(* NULL or the identity of a cell.  The identity given to the cell that    *)
(* create_node returns for slot i of node p is Append(p, i), the identity  *)
(* of the root cell is <<>>: malloc may return any unused address, and     *)
(* this choice names each cell by where it is linked.                      *)
(* Characters are their ASCII codes, so that tolower and the slot index    *)
(* ith - 'a' are computed as the code computes them.                       *)
(***************************************************************************)
EXTENDS Integers, Sequences, FiniteSets, TLC

\* ---------------------------------------------------------------- bounds
MaxWordLen == 2      \* longest argument string handed to an operation
MaxNodes == 4        \* most LexNodes allocated at once
MaxCount == 2        \* wordcount stays at or below this
MaxDeficit == 1      \* and at or above minus this

\* ------------------------------------------------------------- constants
ALPHA_SIZE == 26
MAX_WORD_LEN == 45

\* 'a' and 'b': the letters argument strings are made of
Letters == {97, 98}

RECURSIVE StringsUpTo(_)
StringsUpTo(n) ==
    IF n = 0 THEN {<<>>}
    ELSE LET shorter == StringsUpTo(n - 1)
         IN  shorter \cup {Append(s, c) : s \in {t \in shorter : Len(t) = n - 1},
                                          c \in Letters}

\* The argument strings: the lower-case strings, and "A" and "Ab", two
\* spellings with an upper-case letter.
LowerStrings == StringsUpTo(MaxWordLen)
UpperStrings == {<<65>>, <<65, 98>>}
Strings == LowerStrings \cup UpperStrings

\* ------------------------------------------------------------ the heap
NULL == <<-1>>
Slots == 0 .. (ALPHA_SIZE - 1)

VARIABLES
    root,        \* lex->root: NULL or a node
    wordcount,   \* lex->wordcount
    heap,        \* the LexNodes: cell |-> [allocated, is_word, children]
    status,      \* "live", "fault" (the process died in an operation), "destroyed",
                 \* "corrupt" (an operation wrote outside the nodes)
    last,        \* the last call: [op, ret]
    members,     \* the mathematical set of strings the same calls produce
    phase        \* "insert": so far only distinct new lower-case words were
                 \* added; "remove": and then only members removed; "other"

vars == <<root, wordcount, heap, status, last, members, phase>>

\* The part of the state the C functions read and write.
Mem == [root |-> root, wordcount |-> wordcount, heap |-> heap]

\* A LexNode** is the root field of the lexicon or a child slot of a node.
ROOT_SLOT == [owner |-> NULL, idx |-> 0]
ChildSlot(node, i) == [owner |-> node, idx |-> i]

\* children[i] of a cell.  The cells keep the slots of the letters argument
\* strings are made of; no operation stores into another slot, which
\* therefore holds the NULL create_node put there.
LetterSlots == {c - 97 : c \in Letters}
Child(cell, i) == IF i \in LetterSlots THEN cell.children[i] ELSE NULL

Deref(m, slot) ==
    IF slot = ROOT_SLOT THEN m.root ELSE Child(m.heap[slot.owner], slot.idx)

Store(m, slot, ptr) ==
    IF slot = ROOT_SLOT THEN [m EXCEPT !.root = ptr]
    ELSE [m EXCEPT !.heap[slot.owner].children[slot.idx] = ptr]

\* The cells malloc can hand out, and those in use.
Cells == {[i \in 1 .. Len(w) |-> w[i] - 97] : w \in LowerStrings}
Allocated(m) == {n \in Cells : m.heap[n].allocated}

NoChildren == [i \in LetterSlots |-> NULL]
FreeCell == [allocated |-> FALSE, is_word |-> FALSE, children |-> NoChildren]

\* what the cell of a node shows once free has been called on it twice
TwiceFreed == [allocated |-> FALSE, is_word |-> TRUE, children |-> NoChildren]

free(m, node) ==
    [m EXCEPT !.heap[node] = IF @.allocated THEN FreeCell ELSE TwiceFreed]

create_node == [allocated |-> TRUE, is_word |-> FALSE, children |-> NoChildren]

\* malloc + create_node, the new cell stored into slot
AllocInto(m, slot, node) ==
    Store([m EXCEPT !.heap[node] = create_node], slot, node)

\* ------------------------------------------------------- case folding
tolower(c) == IF c \in 65 .. 90 THEN c + 32 ELSE c

to_lower_case(word) == [i \in 1 .. Len(word) |-> tolower(word[i])]

\* ------------------------------------------------------------- queries
RECURSIVE contains_walk(_, _, _, _)
contains_walk(m, curr_node, word_lower, i) ==
    IF i > Len(word_lower) THEN curr_node
    ELSE IF curr_node = NULL THEN NULL
    ELSE contains_walk(m, Child(m.heap[curr_node], word_lower[i] - 97), word_lower, i + 1)

\* the lookup that walks the word as spelled, without folding its case
clex_contains_helper_as_spelled(m, word, isPrefix) ==
    LET curr_node == contains_walk(m, m.root, word, 1)
    IN  IF curr_node = NULL THEN FALSE
        ELSE isPrefix \/ m.heap[curr_node].is_word

\* the lookup whose prefix answer needs a node reached by consuming a letter
clex_contains_helper_past_root(m, word, isPrefix) ==
    LET word_lower == to_lower_case(word)
        curr_node == contains_walk(m, m.root, word_lower, 1)
    IN  IF curr_node = NULL THEN FALSE
        ELSE (isPrefix /\ Len(word) > 0) \/ m.heap[curr_node].is_word

clex_contains_helper(m, word, isPrefix) ==
    LET word_lower == to_lower_case(word)
        curr_node == contains_walk(m, m.root, word_lower, 1)
    IN  IF curr_node = NULL THEN FALSE
        ELSE isPrefix \/ m.heap[curr_node].is_word

clex_contains(m, word) == clex_contains_helper(m, word, FALSE)

clex_contains_prefix(m, prefix) == clex_contains_helper(m, prefix, TRUE)

clex_isEmpty(m) == m.wordcount = 0

clex_wordcount(m) == m.wordcount

\* ------------------------------------------------------------ insertion
\* The result of an operation: the memory it leaves and what it returns
\* ("fault" when it dereferenced a null pointer; "wild" when the walk of
\* clex_simple_add came to a character that is no lower-case letter, whose
\* slot lies outside the children array: the caller says what that gives).
Result(m, ret) == [mem |-> m, ret |-> ret]

RECURSIVE simple_add_walk(_, _, _, _)
simple_add_walk(m, last_node, word_lower, i) ==
    IF last_node = NULL THEN Result(m, "fault")
    ELSE IF i > Len(word_lower)
    THEN Result([m EXCEPT !.heap[last_node].is_word = TRUE,
                          !.wordcount = @ + 1], "void")
    ELSE LET idx == word_lower[i] - 97
             next_node == ChildSlot(last_node, idx)
         IN  IF idx \notin Slots THEN Result(m, "wild")
             ELSE IF Deref(m, next_node) = NULL
             THEN simple_add_walk(AllocInto(m, next_node, Append(last_node, idx)),
                                  Append(last_node, idx), word_lower, i + 1)
             ELSE simple_add_walk(m, Deref(m, next_node), word_lower, i + 1)

clex_simple_add(m, word_lower) == simple_add_walk(m, m.root, word_lower, 1)

\* insert that forgets to count the word
clex_add_uncounted(m, word) ==
    LET r == clex_simple_add(m, to_lower_case(word))
    IN  Result([r.mem EXCEPT !.wordcount = m.wordcount], r.ret)

clex_add(m, word) == clex_simple_add(m, to_lower_case(word))

\* ------------------------------------------------------------- deletion
Min(S) == CHOOSE x \in S : \A y \in S : x <= y

\* the slots i..ALPHA_SIZE-1 of node that hold a node (all are letter slots)
NonNullFrom(m, node, i) ==
    {j \in LetterSlots : j >= i /\ j < ALPHA_SIZE /\ m.heap[node].children[j] # NULL}

RECURSIVE delete_node_helper(_, _), delete_helper_loop(_, _, _)
\* the helper that frees the subtree and leaves wordcount alone
delete_node_helper_uncounted(m, nodeptr) ==
    LET node == Deref(m, nodeptr)
    IN  IF node = NULL THEN m
        ELSE Store(free(delete_helper_loop(m, node, 0), node), nodeptr, NULL)

delete_node_helper(m, nodeptr) ==
    LET node == Deref(m, nodeptr)
    IN  IF node = NULL THEN m
        ELSE LET m1 == delete_helper_loop(m, node, 0)
                 m2 == IF m1.heap[node].is_word
                       THEN [m1 EXCEPT !.wordcount = @ - 1] ELSE m1
             IN  Store(free(m2, node), nodeptr, NULL)

\* the loop over the child slots i..ALPHA_SIZE-1 of node, in ascending order;
\* a call on a slot that holds NULL returns at once, so the loop goes from
\* one non-null slot to the next
delete_helper_loop(m, node, i) ==
    LET rest == NonNullFrom(m, node, i)
    IN  IF rest = {} THEN m
        ELSE delete_helper_loop(delete_node_helper(m, ChildSlot(node, Min(rest))),
                                node, Min(rest) + 1)

delete_node(m, node) ==
    IF node = NULL THEN m
    ELSE free(delete_helper_loop(m, node, 0), node)

RECURSIVE branch_contains_words(_, _)
branch_contains_words(m, nodeptr) ==
    LET node == Deref(m, nodeptr)
    IN  IF node = NULL THEN FALSE
        ELSE \/ \E i \in NonNullFrom(m, node, 0) :
                    branch_contains_words(m, ChildSlot(node, i))
             \/ m.heap[node].is_word

\* remove without the scrub: the branch above a freed word node stays
scrub_nothing(m, nodeptr) == m

RECURSIVE scrub_empty_branches(_, _), scrub_loop(_, _, _)
scrub_empty_branches(m, nodeptr) ==
    LET node == Deref(m, nodeptr)
    IN  IF node = NULL THEN m
        ELSE IF m.heap[node].is_word \/ branch_contains_words(m, nodeptr)
        THEN scrub_loop(m, node, 0)
        ELSE Store(delete_node(m, node), nodeptr, NULL)

scrub_loop(m, node, i) ==
    LET rest == NonNullFrom(m, node, i)
    IN  IF rest = {} THEN m
        ELSE scrub_loop(scrub_empty_branches(m, ChildSlot(node, Min(rest))),
                        node, Min(rest) + 1)

\* --------------------------------------------------------------- removal
\* The descent to the node of the last letter but one: the slot reached, or
\* NO_SLOT when a null pointer stopped it (the function returns false).
NO_SLOT == [owner |-> NULL, idx |-> -1]

RECURSIVE remove_descend(_, _, _, _, _)
remove_descend(m, curr_node, word_lower, i, n) ==
    IF i > n THEN curr_node
    ELSE IF Deref(m, curr_node) = NULL THEN NO_SLOT
    ELSE remove_descend(m, ChildSlot(Deref(m, curr_node), word_lower[i] - 97),
                        word_lower, i + 1, n)

\* What reading outside an array can give.  word_lower[wordlen - 1] of an
\* empty word is the byte in front of the array: any byte.  A slot index
\* outside 0..25 reads a word of memory that is no child slot: null, or
\* something whose use traps.
OutOfBounds ==
    {[byte |-> 97, wild |-> "null"], [byte |-> 98, wild |-> "null"],
     [byte |-> 0, wild |-> "null"], [byte |-> 0, wild |-> "trap"]}
NoOutOfBounds == [byte |-> 0, wild |-> "null"]

clex_remove(m, word, oob) ==
    LET word_lower == to_lower_case(word)
        wordlen == Len(word)
        curr_node == remove_descend(m, ROOT_SLOT, word_lower, 1, wordlen - 1)
    IN  IF curr_node = NO_SLOT THEN Result(m, "false")
        ELSE IF Deref(m, curr_node) = NULL THEN Result(m, "fault")
        ELSE LET ch == IF wordlen = 0 THEN oob.byte ELSE word_lower[wordlen]
                 idx == ch - 97
                 word_node == ChildSlot(Deref(m, curr_node), idx)
             IN  IF idx \notin Slots
                 THEN Result(m, IF oob.wild = "null" THEN "false" ELSE "fault")
                 ELSE IF Deref(m, word_node) = NULL THEN Result(m, "false")
                 ELSE LET node == Deref(m, word_node)
                          m1 == [m EXCEPT !.heap[node].is_word = FALSE,
                                          !.wordcount = @ - 1]
                      IN  IF NonNullFrom(m1, node, 0) # {}
                          THEN Result(m1, "true")
                          ELSE Result(scrub_empty_branches(
                                          Store(free(m1, node), word_node, NULL),
                                          ROOT_SLOT), "true")

\* removePrefix that deletes what is below the prefix node and keeps the node
clex_remove_prefix_below(m, prefix) ==
    LET pref_lower == to_lower_case(prefix)
        curr_node == remove_descend(m, ROOT_SLOT, pref_lower, 1, Len(prefix))
    IN  IF curr_node = NO_SLOT THEN Result(m, "false")
        ELSE IF Deref(m, curr_node) = NULL THEN Result(m, "false")
        ELSE Result(delete_helper_loop(m, Deref(m, curr_node), 0), "true")

\* removePrefix that turns the empty prefix down
clex_remove_prefix_nonempty(m, prefix) ==
    LET pref_lower == to_lower_case(prefix)
        curr_node == remove_descend(m, ROOT_SLOT, pref_lower, 1, Len(prefix))
    IN  IF Len(prefix) = 0 \/ curr_node = NO_SLOT THEN Result(m, "false")
        ELSE IF Deref(m, curr_node) = NULL THEN Result(m, "false")
        ELSE Result(Store(delete_node_helper(m, curr_node), curr_node, NULL), "true")

clex_remove_prefix(m, prefix) ==
    LET pref_lower == to_lower_case(prefix)
        curr_node == remove_descend(m, ROOT_SLOT, pref_lower, 1, Len(prefix))
    IN  IF curr_node = NO_SLOT THEN Result(m, "false")
        ELSE IF Deref(m, curr_node) = NULL THEN Result(m, "false")
        ELSE Result(Store(delete_node_helper(m, curr_node), curr_node, NULL), "true")

\* clear that leaves the count to the deletion of the nodes
clex_clear_keep_count(m) ==
    LET m1 == delete_node(m, m.root)
    IN  Result(AllocInto(m1, ROOT_SLOT, <<>>), "void")

clex_clear(m) ==
    LET m1 == delete_node(m, m.root)
        m2 == AllocInto(m1, ROOT_SLOT, <<>>)
    IN  Result([m2 EXCEPT !.wordcount = 0], "void")

clex_delete(m) == Result(delete_node(m, m.root), "void")

\* ------------------------------------------------------- the bulk loader
\* A file: whether fopen succeeds, and its bytes ('\n' is 10).
NEWLINE == 10

\* fgets(line, sizeof(line), lex_file) at byte pos of the file: the bytes up
\* to and with the next newline, MAX_WORD_LEN of them at most
fgets(content, pos) ==
    LET limit == Min({Len(content), pos + MAX_WORD_LEN - 1})
        nls == {j \in pos .. limit : content[j] = NEWLINE}
    IN  SubSeq(content, pos, IF nls = {} THEN limit ELSE Min(nls))

\* the scan set of "%45[ a-zA-Z]"
InScanSet(c) == c = 32 \/ c \in 65 .. 90 \/ c \in 97 .. 122

\* sscanf(line, "%45[ a-zA-Z]", word): the longest run of bytes of the scan
\* set the line starts with, 45 at most; nscanned is 1 unless it is empty
sscanf_word(line) ==
    LET stop == {j \in 1 .. Len(line) : ~InScanSet(line[j])}
        n == IF stop = {} THEN Len(line) ELSE Min(stop) - 1
    IN  SubSeq(line, 1, Min({n, MAX_WORD_LEN}))

LoadResult(m, ret, calls) == [mem |-> m, ret |-> ret, calls |-> calls]

\* The while loop of clex_add_from_file from byte pos on; calls is the
\* list of the words handed to clex_simple_add or clex_add so far.  A walk
\* that comes to a slot outside the children array either traps there or
\* finds the word of memory null and plants a node in it: the load ends
\* "corrupt", with memory written that belongs to no node.
RECURSIVE load_lines(_, _, _, _, _, _)
load_lines(m, content, pos, is_lower_case, oob, calls) ==
    IF pos > Len(content) THEN LoadResult(m, "true", calls)
    ELSE LET line == fgets(content, pos)
             word == sscanf_word(line)
         IN  IF word = <<>> THEN LoadResult(m, "false", calls)
             ELSE LET r == IF is_lower_case THEN clex_simple_add(m, word)
                                            ELSE clex_add(m, word)
                      called == Append(calls, word)
                  IN  IF r.ret = "fault" THEN LoadResult(r.mem, "fault", called)
                      ELSE IF r.ret = "wild"
                      THEN LoadResult(r.mem, IF oob.wild = "trap" THEN "fault"
                                             ELSE "corrupt", called)
                      ELSE load_lines(r.mem, content, pos + Len(line),
                                      is_lower_case, oob, called)

clex_add_from_file(m, file, is_lower_case, oob) ==
    IF ~file.opens THEN LoadResult(m, "false", <<>>)
    ELSE load_lines(m, file.content, 1, is_lower_case, oob, <<>>)

\* ------------------------------------------------------------- the state
\* what clex_create returns: a root without children, no word counted
FreshMem ==
    [root |-> <<>>, wordcount |-> 0,
     heap |-> [n \in Cells |-> IF n = <<>> THEN create_node ELSE FreeCell]]

Init ==
    /\ root = <<>>
    /\ wordcount = 0
    /\ heap = [n \in Cells |-> IF n = <<>> THEN create_node ELSE FreeCell]
    /\ status = "live"
    /\ last = [op |-> "create", ret |-> "void"]
    /\ members = {}
    /\ phase = "insert"

IsLower(word) == \A i \in 1 .. Len(word) : word[i] \in 97 .. 122

InBounds(m) ==
    /\ Cardinality(Allocated(m)) <= MaxNodes
    /\ m.wordcount <= MaxCount
    /\ m.wordcount >= -MaxDeficit

\* A call that returned (or died): the memory and the record of the call.
Finish(op, res) ==
    \E r \in {res} :
    /\ InBounds(r.mem)
    /\ root' = r.mem.root
    /\ wordcount' = r.mem.wordcount
    /\ heap' = r.mem.heap
    /\ status' = IF r.ret = "fault" THEN "fault" ELSE "live"
    /\ last' = [op |-> op, ret |-> r.ret]

Add(word) ==
    /\ status = "live"
    /\ Finish("add", clex_add(Mem, word))
    /\ members' = members \cup {to_lower_case(word)}
    /\ phase' = IF phase = "insert" /\ word # <<>> /\ IsLower(word) /\ word \notin members
                THEN "insert" ELSE "other"

IsPrefixOf(p, w) == Len(p) <= Len(w) /\ SubSeq(w, 1, Len(p)) = p

Remove(word) ==
    /\ status = "live"
    /\ \E oob \in (IF word = <<>> THEN OutOfBounds ELSE {NoOutOfBounds}) :
           Finish("remove", clex_remove(Mem, word, oob))
    /\ members' = members \ {to_lower_case(word)}
    /\ phase' = IF phase \in {"insert", "remove"} /\ IsLower(word) /\ word \in members
                THEN "remove" ELSE "other"

RemovePrefix(prefix) ==
    /\ status = "live"
    /\ Finish("remove_prefix", clex_remove_prefix(Mem, prefix))
    /\ members' = {w \in members : ~IsPrefixOf(to_lower_case(prefix), w)}
    /\ phase' = "other"

Clear ==
    /\ status = "live"
    /\ Finish("clear", clex_clear(Mem))
    /\ members' = {}
    /\ phase' = "other"

Delete ==
    /\ status = "live"
    /\ LET r == clex_delete(Mem)
       IN  /\ root' = r.mem.root
           /\ wordcount' = r.mem.wordcount
           /\ heap' = r.mem.heap
    /\ status' = "destroyed"
    /\ last' = [op |-> "delete", ret |-> "void"]
    /\ phase' = "other"
    /\ UNCHANGED members

\* The files handed to the loader: one that cannot be opened, and
\* "a\nb\n", "ab\n", "b" (no newline at the end), the empty file,
\* "a\n\nb\n" (an empty second line), "1\na\n", "a1\n", "Ab\n" and "a b\n".
Opened(content) == [opens |-> TRUE, content |-> content]
Files ==
    {[opens |-> FALSE, content |-> <<>>],
     Opened(<<97, NEWLINE, 98, NEWLINE>>), Opened(<<97, 98, NEWLINE>>),
     Opened(<<98>>), Opened(<<>>),
     Opened(<<97, NEWLINE, NEWLINE, 98, NEWLINE>>),
     Opened(<<49, NEWLINE, 97, NEWLINE>>), Opened(<<97, 49, NEWLINE>>),
     Opened(<<65, 98, NEWLINE>>), Opened(<<97, 32, 98, NEWLINE>>)}

AddFromFile(file, is_lower_case) ==
    /\ status = "live"
    /\ \E oob \in {o \in OutOfBounds : o.byte = 0} :
         \E r \in {clex_add_from_file(Mem, file, is_lower_case, oob)} :
           /\ InBounds(r.mem)
           /\ root' = r.mem.root
           /\ wordcount' = r.mem.wordcount
           /\ heap' = r.mem.heap
           /\ status' = IF r.ret \in {"fault", "corrupt"} THEN r.ret ELSE "live"
           /\ last' = [op |-> "add_from_file", ret |-> r.ret, file |-> file,
                       is_lower_case |-> is_lower_case, calls |-> r.calls]
           /\ members' = members \cup {to_lower_case(r.calls[i]) : i \in 1 .. Len(r.calls)}
    /\ phase' = "other"

\* A load the C standard defines: every byte that can reach the walk of
\* clex_simple_add is a letter, and a lower-case one when the caller says
\* the file is in lower case.
DefinedLoad(file, is_lower_case) ==
    \A j \in 1 .. Len(file.content) :
        LET c == file.content[j]
        IN  \/ ~InScanSet(c)
            \/ c \in 97 .. 122
            \/ (~is_lower_case /\ c \in 65 .. 90)

Next ==
    \/ \E word \in Strings : Add(word)
    \/ \E word \in Strings : Remove(word)
    \/ \E prefix \in Strings : RemovePrefix(prefix)
    \/ Clear
    \/ Delete

Spec == Init /\ [][Next]_vars

\* The calls whose behaviour the C standard defines: every call but
\* remove(""), which reads word_lower[-1].
NextDefined ==
    \/ \E word \in Strings : Add(word)
    \/ \E word \in Strings \ {<<>>} : Remove(word)
    \/ \E prefix \in Strings : RemovePrefix(prefix)
    \/ Clear
    \/ Delete

SpecDefined == Init /\ [][NextDefined]_vars

\* The defined calls, those of the bulk loader included.
NextLoaderDefined ==
    \/ NextDefined
    \/ \E file \in Files, is_lower_case \in BOOLEAN :
           DefinedLoad(file, is_lower_case) /\ AddFromFile(file, is_lower_case)

SpecLoaderDefined == Init /\ [][NextLoaderDefined]_vars

\* The defined calls of the set, and the bulk loader with any file and flag.
NextLoader ==
    \/ NextDefined
    \/ \E file \in Files, is_lower_case \in BOOLEAN : AddFromFile(file, is_lower_case)

SpecLoader == Init /\ [][NextLoader]_vars

\* ------------------------------------------------- what the claims name
Contains(w) == clex_contains(Mem, w)
ContainsPrefix(p) == clex_contains_prefix(Mem, p)

NonEmptyStrings == Strings \ {<<>>}
Words == LowerStrings \ {<<>>}

\* the nodes reachable from ptr
RECURSIVE ReachableFrom(_, _)
ReachableFrom(m, ptr) ==
    IF ptr = NULL THEN {}
    ELSE {ptr} \cup UNION {ReachableFrom(m, m.heap[ptr].children[i]) :
                               i \in NonNullFrom(m, ptr, 0)}

Reachable == ReachableFrom(Mem, root)

\* a node that is no word and has no child
IsDangling(n) == ~heap[n].is_word /\ NonNullFrom(Mem, n, 0) = {}

\* below the root, every node is a word or has a child
NoDanglingNode == \A n \in Reachable \ {root} : ~IsDangling(n)

StoredWords == {w \in LowerStrings : Contains(w)}

\* ---------------------------------------------------------------- claims

\* C1 (invariant I1): after any sequence of insert, remove and removePrefix
\* calls no node reachable from the root is both non-terminal and
\* childless.  (The root of a set without words is exempt: it has to be
\* there and can be neither.)
C1_NoDanglingNode == status = "live" => NoDanglingNode

\* C2: for every non-empty prefix p, containsPrefix(p) is true if and only
\* if at least one stored word begins with p.
C2_PrefixIffStoredWord ==
    status = "live" =>
        \A p \in NonEmptyStrings :
            ContainsPrefix(p) <=> \E w \in StoredWords : IsPrefixOf(to_lower_case(p), w)

\* C3: the trie is a mathematical set of strings: after any sequence of
\* insert, remove, removePrefix and clear calls (each of which returns),
\* containsWord(w) is true exactly when w is in the set the calls produce.
C3_ContainsIffMember ==
    status # "destroyed" =>
        /\ status = "live"
        /\ \A w \in Strings : Contains(w) <=> to_lower_case(w) \in members

\* C4 (invariant I2): size() equals the number of nodes of the tree whose
\* terminal flag is true.
C4_CountIsTerminals ==
    status = "live" =>
        clex_wordcount(Mem) = Cardinality({n \in Reachable : heap[n].is_word})

\* C5: for a word w that is not a member (a proper prefix of a stored word,
\* or a word none of whose path exists), remove(w) returns false and leaves
\* size() and the membership of every word unchanged.
C5_RemoveNonMemberIsNoOp ==
    [][\A w \in NonEmptyStrings :
          (~Contains(w) /\ Remove(w)) =>
              /\ last'.ret = "false"
              /\ clex_wordcount(Mem)' = clex_wordcount(Mem)
              /\ \A v \in LowerStrings : Contains(v)' = Contains(v)]_vars

\* C6: in every state of a live set the root node is present.
C6_RootPresent == status = "live" => root # NULL

\* C7: a live set is usable for any operation: insert, remove and
\* removePrefix with a non-empty lower-case argument complete without
\* reading a field of a null node, and insert(w) makes containsWord(w) true.
C7_LiveSetIsUsable ==
    [][\A w \in Words :
          /\ Add(w) => (status' = "live" /\ Contains(w)')
          /\ Remove(w) => status' = "live"
          /\ RemovePrefix(w) => status' = "live"]_vars

\* C8: after remove(word) returns true, no childless non-terminal node is
\* reachable from the root, whatever state the set was in before the call.
C8_NoDanglingAfterRemove ==
    (status = "live" /\ last.op = "remove" /\ last.ret = "true") => NoDanglingNode

\* C9 (prefix correctness after deletion): starting from a fresh set, after
\* inserting distinct lower-case words and then removing members one by
\* one, each removed word is no longer contained, every word not yet removed
\* still is, containsPrefix(p) is true for a non-empty p exactly when a word
\* not yet removed begins with p, and once all are removed size() is 0.
C9_PrefixCorrectAfterDeletion ==
    phase = "remove" =>
        /\ status = "live"
        /\ last.ret = "true"
        /\ \A w \in LowerStrings : Contains(w) <=> w \in members
        /\ \A p \in NonEmptyStrings :
               ContainsPrefix(p) <=> \E w \in members : IsPrefixOf(to_lower_case(p), w)
        /\ members = {} => clex_wordcount(Mem) = 0

\* "a" was removed from {"a", "ab"}: "ab" remains and "a" is still a prefix
C9_Witness ==
    /\ phase = "remove"
    /\ members = {<<97, 98>>}
    /\ ContainsPrefix(<<97>>)
    /\ ~Contains(<<97>>)

\* C10: for a non-empty prefix p whose path exists, removePrefix(p) returns
\* true, and afterwards containsWord is false for every word that begins
\* with p (p itself included) and unchanged for every other word.  Stated
\* over every reachable live state: the result of clex_remove_prefix, the
\* operator the RemovePrefix action applies, is compared with the state it
\* is applied to.
C10_RemovePrefixRemovesThePrefixed ==
    status = "live" =>
        LET stored == StoredWords
        IN  \A p \in NonEmptyStrings :
                ContainsPrefix(p) =>
                    \E r \in {clex_remove_prefix(Mem, p)} :
                        /\ r.ret = "true"
                        /\ {w \in LowerStrings : clex_contains(r.mem, w)} =
                               {w \in stored : ~IsPrefixOf(to_lower_case(p), w)}

\* a removePrefix returned true and left a word in the set
C10_Witness ==
    /\ status = "live"
    /\ last = [op |-> "remove_prefix", ret |-> "true"]
    /\ \E w \in StoredWords : w # <<>>

\* C11: removePrefix(p) decreases size() by exactly the number of terminal
\* nodes in the detached subtree, which is the number of distinct stored
\* words that begin with p; a removePrefix that returns false leaves size()
\* unchanged.  Stated over every reachable live state and every argument.
C11_RemovePrefixCountsTerminals ==
    status = "live" =>
        LET stored == StoredWords
        IN  \A p \in Strings :
                \E r \in {clex_remove_prefix(Mem, p)} :
                    IF r.ret = "true"
                    THEN LET node == contains_walk(Mem, root, to_lower_case(p), 1)
                             terminals == {n \in ReachableFrom(Mem, node) : heap[n].is_word}
                         IN  /\ clex_wordcount(r.mem) =
                                    clex_wordcount(Mem) - Cardinality(terminals)
                             /\ Cardinality(terminals) =
                                    Cardinality({w \in stored :
                                                    IsPrefixOf(to_lower_case(p), w)})
                    ELSE r.ret = "false" /\ clex_wordcount(r.mem) = clex_wordcount(Mem)

\* removePrefix("a") took the words under "a" out of a set that held "b" too
C11_Witness ==
    /\ status = "live"
    /\ last = [op |-> "remove_prefix", ret |-> "true"]
    /\ members = {<<98>>}
    /\ Contains(<<98>>)
    /\ clex_wordcount(Mem) = 1

\* C12 (round trip): for any set W of distinct lower-case words inserted
\* into a freshly created set in any order, containsWord(w) is true for
\* every w in W and size() equals |W|.
C12_RoundTrip ==
    phase = "insert" =>
        /\ status = "live"
        /\ \A w \in members : Contains(w)
        /\ clex_wordcount(Mem) = Cardinality(members)

\* "a" and "ab" were inserted into a fresh set
C12_Witness ==
    /\ phase = "insert"
    /\ members = {<<97>>, <<97, 98>>}
    /\ last.op = "add"

\* C13: insert does not double-count: inserting a word that is already a
\* member leaves the membership of every word and size() unchanged.
C13_InsertMemberKeepsCount ==
    [][\A w \in NonEmptyStrings :
          (Contains(w) /\ Add(w)) =>
              /\ clex_wordcount(Mem)' = clex_wordcount(Mem)
              /\ \A v \in LowerStrings : Contains(v)' = Contains(v)]_vars

\* C14: the stored count is never negative: size() >= 0 in every state
\* reachable by insert, remove, removePrefix and clear calls.
C14_CountNotNegative == status = "live" => clex_wordcount(Mem) >= 0

\* C15: clear() resets the set to the freshly created state from any
\* reachable live state, one whose root has been freed included: afterwards
\* size() is 0, isEmpty() is true, the root is present with no children,
\* and, the memory being that of a set returned by create(), any following
\* sequence of operations gives the same results as on such a set.
C15_ClearResets ==
    /\ status = "live" =>
           LET r == clex_clear(Mem)
           IN  /\ r.ret = "void"
               /\ clex_wordcount(r.mem) = 0
               /\ clex_isEmpty(r.mem)
               /\ r.mem.root # NULL
               /\ NonNullFrom(r.mem, r.mem.root, 0) = {}
               /\ r.mem = FreshMem
    /\ last.op = "clear" => (status = "live" /\ Mem = FreshMem)

\* a live set whose root has been freed and whose count is not 0: clear
\* makes it a fresh set
C15_Witness ==
    /\ status = "live"
    /\ root = NULL
    /\ clex_wordcount(Mem) # 0
    /\ clex_clear(Mem).mem = FreshMem

\* C16 (case-insensitivity): for two spellings of a word that differ only
\* in letter case, insert, containsWord, containsPrefix, remove and
\* removePrefix behave identically: each returns the same and leaves the
\* same set, so containsWord on one spelling is true iff it is on the other,
\* whatever the case used at insertion time.
C16_CaseInsensitive ==
    status = "live" =>
        \A w \in UpperStrings :
            LET l == to_lower_case(w)
            IN  /\ l # w
                /\ clex_contains(Mem, w) = clex_contains(Mem, l)
                /\ clex_contains_prefix(Mem, w) = clex_contains_prefix(Mem, l)
                /\ clex_add(Mem, w) = clex_add(Mem, l)
                /\ clex_remove(Mem, w, NoOutOfBounds) = clex_remove(Mem, l, NoOutOfBounds)
                /\ clex_remove_prefix(Mem, w) = clex_remove_prefix(Mem, l)

\* after an insert the set holds "ab", found under the spelling "Ab" too
C16_Witness ==
    /\ status = "live"
    /\ last.op = "add"
    /\ Contains(<<97, 98>>)
    /\ Contains(<<65, 98>>)

\* C17: containsPrefix("") returns true if and only if the set currently
\* holds at least one word: false on a set with no words (freshly created,
\* cleared, or emptied by removals), true on any non-empty set.
C17_EmptyPrefixIffNonEmpty ==
    status = "live" => (ContainsPrefix(<<>>) <=> StoredWords # {})

\* C18: the empty string is never a stored member: in every reachable
\* state, after insert("") too, the root's terminal flag is false and
\* containsWord("") returns false.
C18_EmptyStringNeverMember ==
    status = "live" =>
        /\ root # NULL => ~heap[root].is_word
        /\ ~Contains(<<>>)

\* the lines of a file, and the lines the loader is to accept: 1 to 45
\* letters or spaces
RECURSIVE Lines(_)
Lines(content) ==
    IF content = <<>> THEN <<>>
    ELSE LET nls == {j \in 1 .. Len(content) : content[j] = NEWLINE}
         IN  IF nls = {} THEN <<content>>
             ELSE <<SubSeq(content, 1, Min(nls) - 1)>>
                      \o Lines(SubSeq(content, Min(nls) + 1, Len(content)))

WellFormedLine(line) ==
    /\ Len(line) \in 1 .. MAX_WORD_LEN
    /\ \A j \in 1 .. Len(line) : InScanSet(line[j])

\* C19: the bulk loader returns false when the file cannot be opened (set
\* unchanged) or when some line fails the line pattern, stopping at the
\* first such line so that no later line is inserted; otherwise it returns
\* true after calling insert exactly once per line, in file order.
C19_LoaderStopsAtBadLine ==
    [][last'.op = "add_from_file" =>
          LET file == last'.file
              lines == Lines(file.content)
              bad == {i \in 1 .. Len(lines) : ~WellFormedLine(lines[i])}
          IN  IF ~file.opens
              THEN last'.ret = "false" /\ Mem' = Mem
              ELSE IF bad # {}
              THEN /\ last'.ret = "false"
                   /\ last'.calls = SubSeq(lines, 1, Min(bad) - 1)
              ELSE /\ last'.ret = "true"
                   /\ last'.calls = lines]_vars

\* C20: remove(word) returns false, with the set unchanged, whenever the
\* tree does not contain the full path for all letters of word but the
\* last, at whatever depth the path first breaks (the node of the letter
\* before the last being the only one missing included).
C20_RemoveFalseOnBrokenPath ==
    [][\A w \in NonEmptyStrings :
          (~ContainsPrefix(SubSeq(w, 1, Len(w) - 1)) /\ Remove(w)) =>
              (last'.ret = "false" /\ Mem' = Mem)]_vars

\* C21: for a word w that is currently a member, remove(w) returns true,
\* decreases size() by exactly 1, makes containsWord(w) false, and leaves
\* containsWord(v) unchanged for every other word v.
C21_RemoveMember ==
    [][\A w \in Strings :
          (Contains(w) /\ Remove(w)) =>
              /\ last'.ret = "true"
              /\ clex_wordcount(Mem)' = clex_wordcount(Mem) - 1
              /\ ~Contains(w)'
              /\ \A v \in LowerStrings \ {to_lower_case(w)} :
                     Contains(v)' = Contains(v)]_vars

\* the child-slot index the walk of an insert computes for a byte of a word
\* the loader hands over: clex_add folds the byte, clex_simple_add does not
LoaderSlotIndex(c, is_lower_case) == (IF is_lower_case THEN c ELSE tolower(c)) - 97

\* C22: every child-slot index used by any operation lies in 0..25, for
\* every string the public operations or the loader can pass in; in
\* particular, for every line the loader's line pattern accepts (letters of
\* either case and spaces), loading with the already-lowercase flag set
\* yields the same set as loading with it unset.
C22_LoaderIndexesInRange ==
    [][last'.op = "add_from_file" =>
          /\ \A i \in 1 .. Len(last'.calls) :
                 \A j \in 1 .. Len(last'.calls[i]) :
                     LoaderSlotIndex(last'.calls[i][j], last'.is_lower_case) \in Slots
          /\ last'.is_lower_case =>
                 \E f \in {clex_add_from_file(Mem, last'.file, FALSE, NoOutOfBounds)} :
                     last'.ret = f.ret /\ Mem' = f.mem]_vars

\* Removal with the pruning the specification gives as the cheaper
\* equivalent of the rescan: clex_remove up to the freeing of the word's
\* node, then, bottom-up along the slots the descent went through (the root
\* slot first among them), every node that is no word and has no child is
\* freed and its slot cleared, until a node stays.
RECURSIVE prune_path(_, _, _)
prune_path(m, word_lower, k) ==
    LET node == contains_walk(m, m.root, SubSeq(word_lower, 1, k), 1)
        slot == IF k = 0 THEN ROOT_SLOT
                ELSE ChildSlot(contains_walk(m, m.root, SubSeq(word_lower, 1, k - 1), 1),
                               word_lower[k] - 97)
    IN  IF node = NULL \/ m.heap[node].is_word \/ NonNullFrom(m, node, 0) # {}
        THEN m
        ELSE LET m1 == Store(free(m, node), slot, NULL)
             IN  IF k = 0 THEN m1 ELSE prune_path(m1, word_lower, k - 1)

remove_path_local(m, word) ==
    LET word_lower == to_lower_case(word)
        wordlen == Len(word)
        curr_node == remove_descend(m, ROOT_SLOT, word_lower, 1, wordlen - 1)
    IN  IF curr_node = NO_SLOT THEN Result(m, "false")
        ELSE IF Deref(m, curr_node) = NULL THEN Result(m, "fault")
        ELSE LET word_node == ChildSlot(Deref(m, curr_node), word_lower[wordlen] - 97)
             IN  IF Deref(m, word_node) = NULL THEN Result(m, "false")
                 ELSE LET node == Deref(m, word_node)
                          m1 == [m EXCEPT !.heap[node].is_word = FALSE,
                                          !.wordcount = @ - 1]
                      IN  IF NonNullFrom(m1, node, 0) # {}
                          THEN Result(m1, "true")
                          ELSE Result(prune_path(Store(free(m1, node), word_node, NULL),
                                                 word_lower, wordlen - 1), "true")

\* C23: the whole-tree rescan performed by remove is functionally
\* equivalent to pruning bottom-up only along the removed word's path: from
\* every reachable state, remove(w) with scrub_empty_branches from the root
\* and remove(w) with path-local pruning return the same and produce the
\* same tree and count.
C23_RescanEqualsPathPruning ==
    status = "live" =>
        \A w \in NonEmptyStrings :
            clex_remove(Mem, w, NoOutOfBounds) = remove_path_local(Mem, w)

C25_EveryCallReturns ==
    [][status = "live" => (status' \in {"live", "destroyed"} /\ last'.ret # "fault")]_vars

\* C26: removePrefix(p) returns true exactly when containsPrefix(p) would
\* have returned true in the state immediately before the call, for every
\* prefix p, the empty one included, and containsPrefix(p) is false
\* immediately after a removePrefix(p) that returned true.
C26_RemovePrefixIffContainsPrefix ==
    status = "live" =>
        \A p \in Strings :
            \E r \in {clex_remove_prefix(Mem, p)} :
                /\ r.ret \in {"true", "false"}
                /\ (r.ret = "true") <=> ContainsPrefix(p)
                /\ r.ret = "true" => ~clex_contains_prefix(r.mem, p)

\* removePrefix("") returned true on a set whose root was present: the
\* root is gone and containsPrefix("") is false
C26_Witness ==
    /\ status = "live"
    /\ last = [op |-> "remove_prefix", ret |-> "true"]
    /\ root = NULL
    /\ ~ContainsPrefix(<<>>)

\* the slots, of the set and of the nodes in use, that hold the node n
SlotsHolding(n) ==
    {slot \in {ROOT_SLOT} \cup {ChildSlot(c, i) : c \in Allocated(Mem), i \in LetterSlots} :
        Deref(Mem, slot) = n}

\* C27 (single ownership and memory safety): after every operation the
\* nodes form a tree in which each allocated node is referenced by exactly
\* one slot (a parent's child slot or the set's root), no slot reachable
\* from the set refers to a freed node, no node is freed twice, and every
\* node that is not freed is reachable from the root; no operation writes
\* a node into memory that is no slot.
C27_SingleOwnership ==
    /\ status # "corrupt"
    /\ status = "live" =>
           /\ \A n \in Allocated(Mem) : Cardinality(SlotsHolding(n)) = 1
           /\ \A n \in Reachable : heap[n].allocated
           /\ \A n \in Cells : heap[n] # TwiceFreed
           /\ Allocated(Mem) \subseteq Reachable

====
